---- MODULE Spec2Model ----
(***************************************************************************)
(* commits-of-interest: the commit/diff data model, the path filter, the   *)
(* PR grouping that builds the flat entry list, and the navigation state   *)
(* machine of the terminal UI that runs over that list.                    *)
(*                                                                         *)
(* Conventions.  Rust indices are 0-based and kept 0-based here; a Vec is  *)
(* a TLA+ sequence, so element i of a Vec v is v[i + 1] (operator At).     *)
(* An Option<T> is a sequence of length at most one: None is <<>> and      *)
(* Some(x) is <<x>>.  A String is a sequence of one-character strings, so  *)
(* that its length, its trimming and its comparison are computed.          *)
(***************************************************************************)
EXTENDS Integers, Sequences, FiniteSets, TLC

\* ---------------------------------------------------------------- bounds
\* Longest commit sequence handed to the entry list builder.
MaxCommits == 3
\* Most file diffs of one commit handed to the entry list builder.
MaxFiles == 2

\* ------------------------------------------------------------ std helpers
None == <<>>

Some(x) == <<x>>

At(v, i) == v[i + 1]

Max(S) == CHOOSE x \in S : \A y \in S : y <= x

Min(S) == CHOOSE x \in S : \A y \in S : x <= y

SeqsUpTo(S, n) == UNION {[1..k -> S] : k \in 0..n}

DigitChars == <<"0", "1", "2", "3", "4", "5", "6", "7", "8", "9">>

\* u64 Display: the decimal digits of n, most significant first.
RECURSIVE to_string(_)
to_string(n) ==
    IF n < 10 THEN <<DigitChars[n + 1]>>
    ELSE to_string(n \div 10) \o <<DigitChars[(n % 10) + 1]>>

\* --------------------------------------------------------- records (git.rs)
\* FileDiff { path, lines }: path is a sequence of components, lines the
\* number of DiffLines of the patch.
FileDiff(path, lines) == [path |-> path, lines |-> lines]

\* CommitInfo { short_id, oid, message, pr, file_diffs }: short_id and message
\* are functions of the commit, which oid identifies.
CommitInfo(oid, pr, file_diffs) == [oid |-> oid, pr |-> pr, file_diffs |-> file_diffs]

\* ListEntry::Commit { commit_idx, pr_label, indent }
CommitEntry(commit_idx, pr_label, indent) ==
    [kind |-> "Commit", commit_idx |-> commit_idx, pr_label |-> pr_label, indent |-> indent]

\* ListEntry::Path { commit_idx, file_idx, indent }
PathEntry(commit_idx, file_idx, indent) ==
    [kind |-> "Path", commit_idx |-> commit_idx, file_idx |-> file_idx, indent |-> indent]

IsPath(e) == e.kind = "Path"

IsCommit(e) == e.kind = "Commit"

\* --------------------------------------------- entry list builder (entries.rs)
\* commit.pr.map(|n| format!("#{n}")).unwrap_or_else(|| "??".to_owned())
pr_label_of(commit) ==
    IF commit.pr = None THEN <<"?", "?">> ELSE <<"#">> \o to_string(commit.pr[1])

\* pr_groups.iter_mut().find(|(l, _)| *l == label): position (1-based) of the
\* first group with that label, 0 when there is none.
find_group(groups, label) ==
    LET hits == {g \in DOMAIN groups : groups[g].label = label}
    IN  IF hits = {} THEN 0 ELSE Min(hits)

\* The grouping loop without the find: every commit opens a group of its own.
RECURSIVE pr_groups_unmerged(_, _)
pr_groups_unmerged(commits, n) ==
    IF n = 0 THEN <<>>
    ELSE Append(pr_groups_unmerged(commits, n - 1),
                [label |-> pr_label_of(At(commits, n - 1)), commit_indices |-> <<n - 1>>])

\* The grouping loop, after the first n commits: a Vec of (label, commit indices).
RECURSIVE pr_groups(_, _)
pr_groups(commits, n) ==
    IF n = 0 THEN <<>>
    ELSE LET groups == pr_groups(commits, n - 1)
             commit_idx == n - 1
             label == pr_label_of(At(commits, commit_idx))
             g == find_group(groups, label)
         IN  IF g # 0
             THEN [groups EXCEPT ![g].commit_indices = Append(@, commit_idx)]
             ELSE Append(groups, [label |-> label, commit_indices |-> <<commit_idx>>])

\* pr_groups.iter().map(|(label, _)| label.len() + 1).max().unwrap_or(0)
global_indent(groups) ==
    IF groups = <<>> THEN 0
    ELSE Max({Len(groups[g].label) + 1 : g \in DOMAIN groups})

\* A commit's block whose loop over the files stops one file early.
commit_block_one_short(commits, commit_idx, pr_label, indent) ==
    <<CommitEntry(commit_idx, pr_label, indent)>> \o
    [f \in 1..(Len(At(commits, commit_idx).file_diffs) - 1) |->
        PathEntry(commit_idx, f - 1, indent)]

\* A commit's block whose Commit entry comes after its Path entries.
commit_block_paths_first(commits, commit_idx, pr_label, indent) ==
    [f \in 1..Len(At(commits, commit_idx).file_diffs) |-> PathEntry(commit_idx, f - 1, indent)]
    \o <<CommitEntry(commit_idx, pr_label, indent)>>

\* One commit's block: its Commit entry, then one Path entry per file diff.
commit_block(commits, commit_idx, pr_label, indent) ==
    <<CommitEntry(commit_idx, pr_label, indent)>> \o
    [f \in 1..Len(At(commits, commit_idx).file_diffs) |-> PathEntry(commit_idx, f - 1, indent)]

\* The inner loop with the label on every commit of the group.
RECURSIVE push_group_all_labelled(_, _, _, _)
push_group_all_labelled(commits, group, indent, n) ==
    IF n = 0 THEN <<>>
    ELSE push_group_all_labelled(commits, group, indent, n - 1) \o
         <<CommitEntry(group.commit_indices[n], Some(group.label), indent)>> \o
         [f \in 1..Len(At(commits, group.commit_indices[n]).file_diffs) |->
            PathEntry(group.commit_indices[n], f - 1, indent)]

\* The inner loop over one group's commits, after its first n commits:
\* the label goes to the commit at position 0 of the group only.
RECURSIVE push_group(_, _, _, _)
push_group(commits, group, indent, n) ==
    IF n = 0 THEN <<>>
    ELSE push_group(commits, group, indent, n - 1) \o
         commit_block(commits, group.commit_indices[n],
                      IF n - 1 = 0 THEN Some(group.label) ELSE None, indent)

\* The outer loop over the groups, after the first g groups, one indent for all.
RECURSIVE push_groups(_, _, _, _)
push_groups(commits, groups, indent, g) ==
    IF g = 0 THEN <<>>
    ELSE push_groups(commits, groups, indent, g - 1) \o
         push_group(commits, groups[g], indent, Len(groups[g].commit_indices))

entries_from_commits(commits) ==
    LET groups == pr_groups(commits, Len(commits))
        indent == global_indent(groups)
    IN  push_groups(commits, groups, indent, Len(groups))

\* The builder of src/tui/mod.rs: the indent is computed inside the loop over
\* the groups, from that group's own label.
RECURSIVE push_groups_mod(_, _, _)
push_groups_mod(commits, groups, g) ==
    IF g = 0 THEN <<>>
    ELSE push_groups_mod(commits, groups, g - 1) \o
         push_group(commits, groups[g], Len(groups[g].label) + 1,
                    Len(groups[g].commit_indices))

entries_from_commits_mod(commits) ==
    LET groups == pr_groups(commits, Len(commits))
    IN  push_groups_mod(commits, groups, Len(groups))

\* A first_entry that takes the head of the list for the first Path entry.
first_entry_head(entries) == IF entries = <<>> THEN None ELSE Some(0)

\* entries.iter().position(|e| matches!(e, ListEntry::Path { .. }))
first_entry(entries) ==
    LET hits == {i \in 0..(Len(entries) - 1) : IsPath(At(entries, i))}
    IN  IF hits = {} THEN None ELSE Some(Min(hits))

\* ------------------------------------------------------- strings (std::str)
IsWhitespace(c) == c \in {" ", "\t", "\n", "\r"}

RECURSIVE trim_start(_)
trim_start(s) ==
    IF s # <<>> /\ IsWhitespace(Head(s)) THEN trim_start(Tail(s)) ELSE s

RECURSIVE trim_end(_)
trim_end(s) ==
    IF s # <<>> /\ IsWhitespace(s[Len(s)]) THEN trim_end(SubSeq(s, 1, Len(s) - 1)) ELSE s

\* str::trim
trim(s) == trim_end(trim_start(s))

\* A line's text without the "\r" of a "\r\n" terminator.
strip_cr(line) ==
    IF line # <<>> /\ line[Len(line)] = "\r" THEN SubSeq(line, 1, Len(line) - 1) ELSE line

\* str::lines: the text split at "\n"; a last line needs no terminator, and
\* the text after the last "\n" is a line only when it is not empty.
RECURSIVE split_lines(_, _)
split_lines(s, cur) ==
    IF s = <<>> THEN (IF cur = <<>> THEN <<>> ELSE <<cur>>)
    ELSE IF Head(s) = "\n" THEN <<strip_cr(cur)>> \o split_lines(Tail(s), <<>>)
    ELSE split_lines(Tail(s), Append(cur, Head(s)))

lines(contents) == split_lines(contents, <<>>)

\* --------------------------------------------- commit texts (git.rs, lib.rs)
\* commit.id().to_string(): the full id of the commit that oid identifies.
oid_string(oid) == <<"a">> \o to_string(oid) \o <<"a">> \o to_string(oid)

\* commit.short_id(): an abbreviation of the full id.
short_id(commit) == <<"a">> \o to_string(commit.oid)

\* commit.message(): an Option.  The first commit's message has a body, the
\* second commit has no message, the others have a subject alone.
raw_message(oid) ==
    IF oid = 1 THEN Some(<<"F", "i", "x", "\n", "\n", "w", "h", "y", "\n">>)
    ELSE IF oid = 2 THEN None
    ELSE Some(<<"A", "d", "d">> \o to_string(oid))

\* The message field build_commit_info fills:
\* commit.message().and_then(|m| m.lines().next()).unwrap_or("<no message>")
message(commit) ==
    LET m == raw_message(commit.oid)
        first == IF m = None THEN None
                 ELSE IF lines(m[1]) = <<>> THEN None
                 ELSE Some(lines(m[1])[1])
    IN  IF first # None THEN first[1]
        ELSE <<"<", "n", "o", " ", "m", "e", "s", "s", "a", "g", "e", ">">>

\* ------------------------------------------ changelog (entries.rs, lib.rs)
\* format!("https://github.com/{owner}/{name}/commit/{}", commit.oid)
commit_url(commit, owner, name) ==
    <<"h", "t", "t", "p", "s", ":", "/", "/", "g", "i", "t", "h", "u", "b", ".", "c", "o", "m", "/">>
        \o owner \o <<"/">> \o name \o <<"/", "c", "o", "m", "m", "i", "t", "/">>
        \o oid_string(commit.oid)

\* writeln!(content, "- {} [{}]({})", commit.message, commit.short_id, url)
changelog_line(commit, owner, name) ==
    <<"-", " ">> \o message(commit) \o <<" ", "[">> \o short_id(commit) \o <<"]", "(">>
        \o commit_url(commit, owner, name) \o <<")", "\n">>

\* A serializer that walks the commits in their original order.
RECURSIVE format_proposed_changelog_chronological(_, _, _, _, _)
format_proposed_changelog_chronological(es, cs, owner, name, n) ==
    IF n = 0 THEN <<>>
    ELSE format_proposed_changelog_chronological(es, cs, owner, name, n - 1) \o
         (IF n <= Len(cs) THEN changelog_line(cs[n], owner, name) ELSE <<>>)

\* format_proposed_changelog, after the first n entries of the loop.
RECURSIVE format_proposed_changelog(_, _, _, _, _)
format_proposed_changelog(es, cs, owner, name, n) ==
    IF n = 0 THEN <<>>
    ELSE format_proposed_changelog(es, cs, owner, name, n - 1) \o
         (IF IsCommit(es[n]) THEN changelog_line(At(cs, es[n].commit_idx), owner, name)
          ELSE <<>>)

\* ------------------------------------------------------ path filter (git.rs)
\* The built-in components of filtered_components.
DEFAULT_COMPONENTS ==
    << <<".", "g", "i", "t", "h", "u", "b">>,
       <<"C", "H", "A", "N", "G", "E", "L", "O", "G", ".", "m", "d">>,
       <<"C", "a", "r", "g", "o", ".", "t", "o", "m", "l">>,
       <<"C", "a", "r", "g", "o", ".", "l", "o", "c", "k">>,
       <<"e", "x", "a", "m", "p", "l", "e", "s">>,
       <<"f", "i", "x", "t", "u", "r", "e", "s">>,
       <<"t", "e", "s", "t", "s">> >>

\* The loop over contents.lines(): the trimmed non-empty lines, in order.
RECURSIVE config_components(_, _)
config_components(ls, n) ==
    IF n = 0 THEN <<>>
    ELSE LET line == trim(ls[n])
         IN  config_components(ls, n - 1) \o (IF line # <<>> THEN <<line>> ELSE <<>>)

\* The initializer of the OnceLock: file is Some(contents) when the repository
\* has a working directory and .filtered_components.txt can be read.
init_filtered_components(file) ==
    IF file = None THEN DEFAULT_COMPONENTS
    ELSE DEFAULT_COMPONENTS \o config_components(lines(file[1]), Len(lines(file[1])))

\* OnceLock::get_or_init: the stored value when there is one.
filtered_components(lock, file) ==
    IF lock # None THEN lock[1] ELSE init_filtered_components(file)

\* A test of the last component of the path alone.
is_filtered_file_name(path, components) ==
    \E j \in DOMAIN components : path[Len(path)] = components[j]

\* path.components().any(|c| filtered_components.iter().any(|f| c == f))
is_filtered(path, components) ==
    \E i \in DOMAIN path : \E j \in DOMAIN components : path[i] = components[j]

\* A delta of a tree-to-tree diff: the new and the old file's path (each an
\* Option) and the patch (None when Patch::from_diff yields none, else the
\* number of lines it prints).
Delta(new_path, old_path, patch) ==
    [new_path |-> new_path, old_path |-> old_path, patch |-> patch]

\* The body of the loop of collect_diffs for one delta: the FileDiff pushed,
\* or nothing on each `continue`.
diff_of_delta(delta, components) ==
    LET path == IF delta.new_path # None THEN delta.new_path
                ELSE IF delta.old_path # None THEN delta.old_path
                ELSE None
    IN  IF path = None THEN <<>>
        ELSE IF is_filtered(path[1], components) THEN <<>>
        ELSE IF delta.patch = None THEN <<>>
        ELSE <<FileDiff(path[1], delta.patch[1])>>

RECURSIVE collect_diffs(_, _, _)
collect_diffs(deltas, components, n) ==
    IF n = 0 THEN <<>>
    ELSE collect_diffs(deltas, components, n - 1) \o diff_of_delta(deltas[n], components)

\* A commit of the walked history: its id and the deltas against its first parent.
RawCommit(oid, deltas) == [oid |-> oid, deltas |-> deltas]

\* A build_commit_info that keeps a commit without file diffs.
build_commit_info_keeps_empty(raw, components) ==
    Some(CommitInfo(raw.oid, None, collect_diffs(raw.deltas, components, Len(raw.deltas))))

\* Option<CommitInfo>: None when no file diff is left.
build_commit_info(raw, components) ==
    LET file_diffs == collect_diffs(raw.deltas, components, Len(raw.deltas))
    IN  IF file_diffs = <<>> THEN None
        ELSE Some(CommitInfo(raw.oid, None, file_diffs))

\* The loop over the revwalk, after its first n commits.
RECURSIVE walk_commits(_, _, _)
walk_commits(history, components, n) ==
    IF n = 0 THEN <<>>
    ELSE walk_commits(history, components, n - 1) \o
         build_commit_info(history[n], components)

\* collect_commits when no git call fails.
collect_commits(history, components) ==
    walk_commits(history, components, Len(history))

\* ------------------------------------------- the print-only main (main.rs)
\* The const FILTERED_COMPONENTS of main.rs.
MAIN_FILTERED_COMPONENTS ==
    << <<".", "g", "i", "t", "h", "u", "b">>,
       <<"C", "a", "r", "g", "o", ".", "t", "o", "m", "l">>,
       <<"C", "a", "r", "g", "o", ".", "l", "o", "c", "k">>,
       <<"e", "x", "a", "m", "p", "l", "e", "s">>,
       <<"f", "i", "x", "t", "u", "r", "e", "s">>,
       <<"t", "e", "s", "t", "s">> >>

\* The paths the loop of get_unfiltered_paths pushes for one delta: its old
\* and its new path, each unless a component of it is filtered.
unfiltered_of_delta(delta) ==
    {path \in {delta.old_path[i] : i \in DOMAIN delta.old_path}
               \cup {delta.new_path[i] : i \in DOMAIN delta.new_path} :
        ~is_filtered(path, MAIN_FILTERED_COMPONENTS)}

\* get_unfiltered_paths: None when no path is left, else the sorted Vec
\* without duplicates, as the set of its elements.
get_unfiltered_paths(deltas) ==
    LET unfiltered_paths == UNION {unfiltered_of_delta(deltas[n]) : n \in DOMAIN deltas}
    IN  IF unfiltered_paths = {} THEN None ELSE Some(unfiltered_paths)

\* ---------------------------------------------------- PR lookup (github.rs)
\* The batch size of lookup_prs, scaled down from 50.
BATCH_SIZE == 2

\* A batch that counts a failed call as a success.
lookup_prs_batch_always_ok(chunk, response) ==
    IF response = None THEN [commits |-> chunk, ok |-> TRUE]
    ELSE [commits |-> [i \in 1..Len(chunk) |->
                        IF response[1][i] # None
                        THEN [chunk[i] EXCEPT !.pr = response[1][i]]
                        ELSE chunk[i]],
          ok |-> TRUE]

\* A batch that reads the aliases from the end of the chunk.
lookup_prs_batch_reversed(chunk, response) ==
    IF chunk = <<>> THEN [commits |-> chunk, ok |-> FALSE]
    ELSE IF response = None THEN [commits |-> chunk, ok |-> FALSE]
    ELSE [commits |-> [i \in 1..Len(chunk) |->
                        IF response[1][Len(chunk) + 1 - i] # None
                        THEN [chunk[i] EXCEPT !.pr = response[1][Len(chunk) + 1 - i]]
                        ELSE chunk[i]],
          ok |-> TRUE]

\* One batch: response is None when the gh call or the parse fails, else
\* Some(r) with r[i + 1] what extract_pr finds under alias c<i>.
lookup_prs_batch(chunk, response) ==
    IF chunk = <<>> THEN [commits |-> chunk, ok |-> FALSE]
    ELSE IF response = None THEN [commits |-> chunk, ok |-> FALSE]
    ELSE [commits |-> [i \in 1..Len(chunk) |->
                        IF response[1][i] # None
                        THEN [chunk[i] EXCEPT !.pr = response[1][i]]
                        ELSE chunk[i]],
          ok |-> TRUE]

NumChunks(n) == (n + BATCH_SIZE - 1) \div BATCH_SIZE

\* The loop over the chunks, after the first k chunks.
RECURSIVE lookup_chunks(_, _, _)
lookup_chunks(commits, responses, k) ==
    IF k = 0 THEN [commits |-> commits, success |-> FALSE]
    ELSE LET before == lookup_chunks(commits, responses, k - 1)
             chunk_start == (k - 1) * BATCH_SIZE
             chunk_end == IF chunk_start + BATCH_SIZE < Len(commits)
                          THEN chunk_start + BATCH_SIZE ELSE Len(commits)
             batch == lookup_prs_batch(
                          SubSeq(before.commits, chunk_start + 1, chunk_end), responses[k])
         IN  [commits |-> [i \in 1..Len(commits) |->
                             IF chunk_start < i /\ i <= chunk_end
                             THEN batch.commits[i - chunk_start]
                             ELSE before.commits[i]],
              success |-> before.success \/ batch.ok]

\* remote is whether repo_owner_and_name finds the GitHub owner and name.
lookup_prs(commits, remote, responses) ==
    IF ~remote THEN [commits |-> commits, success |-> FALSE]
    ELSE lookup_chunks(commits, responses, NumChunks(Len(commits)))

\* ------------------------------------------------------ bounds of the session
\* Most commits of the walked history.
MaxHistory == 2
\* Most characters the trimmed input buffer is let to grow to; the buffer
\* itself is let to hold one character more.
MaxBuf == 1
\* Most components a session is let to append to .filtered_components.txt.
MaxAppends == 1
\* Largest height of the diff pane's area.
MaxAreaHeight == 4
\* The ceiling of the diff scroll: usize::MAX, scaled down.
MaxScroll == 3

\* ------------------------------------------------------------ the inputs
\* The PR numbers of the commits handed to the entry list builder.
PRNumbers == {1, 1234}

PROptions == {None} \cup {Some(n) : n \in PRNumbers}

\* What extract_pr can find under an alias of a session's lookup.
LookupOptions == {None, Some(1234)}

src_a == <<<<"s", "r", "c">>, <<"a">>>>

q_b == <<<<"q">>, <<"b">>>>

q_c == <<<<"q">>, <<"c">>>>

tests_x == <<<<"t", "e", "s", "t", "s">>, <<"x">>>>

src_bin == <<<<"s", "r", "c">>, <<"b", "i", "n">>>>

\* The commits a history is drawn from, oldest first.  The first changes
\* src/a, tests/x and adds q/b; the second has a delta without any path,
\* deletes q/c and changes src/bin, for which no patch exists; the third
\* changes tests/x alone; the fourth changes src/a and the fifth q/b.
CommitPool ==
    << RawCommit(1, <<Delta(Some(src_a), Some(src_a), Some(1)),
                      Delta(Some(tests_x), Some(tests_x), Some(1)),
                      Delta(Some(q_b), None, Some(2))>>),
       RawCommit(2, <<Delta(None, None, Some(1)),
                      Delta(None, Some(q_c), Some(1)),
                      Delta(Some(src_bin), Some(src_bin), None)>>),
       RawCommit(3, <<Delta(Some(tests_x), Some(tests_x), Some(1))>>),
       RawCommit(4, <<Delta(Some(src_a), Some(src_a), Some(1))>>),
       RawCommit(5, <<Delta(Some(q_b), Some(q_b), Some(1))>>) >>

\* The histories: the pool's first commits, at most MaxHistory of them.
Histories ==
    {SubSeq(CommitPool, 1, n) : n \in {k \in 0..MaxHistory : k <= Len(CommitPool)}}

\* What .filtered_components.txt holds when the process starts.
InitialFiles == {<<>>, <<" ", "q">>}

\* The text of a proposed_changelog.md that an earlier run has left.
OldChangelog == <<"-", " ", "o", "l", "d", "\n">>

\* What repo_owner_and_name can return: None, or the owner and the name of
\* the origin remote.
Remotes == {None, Some(<<<<"o", "w">>, <<"r">>>>)}

\* How fs::write can end: the whole text written, or a failure that leaves no
\* file or a file without text.
WriteOutcomes == {"written", "not_created", "truncated"}

\* The characters a key event can carry.
KeyChars == {"q", " ", "/", "."}

\* The number of commits of chunk k (1-based) of n commits.
ChunkLen(n, k) ==
    IF k * BATCH_SIZE <= n THEN BATCH_SIZE ELSE n - (k - 1) * BATCH_SIZE

\* What the gh calls of one lookup of n commits can answer, batch by batch:
\* a failure, or what is found under each alias of the batch.
Responses(n) ==
    {rs \in [1..NumChunks(n) -> {None} \cup {Some(r) : r \in SeqsUpTo(LookupOptions, BATCH_SIZE)}] :
        \A k \in DOMAIN rs : rs[k] # None => Len(rs[k][1]) = ChunkLen(n, k)}

\* The heights the diff pane's area can have: none, and the two largest.
AreaHeights == {0, MaxAreaHeight - 1, MaxAreaHeight}

\* ------------------------------------------------------------- the state
VARIABLES
    history,                  \* the commits the revwalk yields
    filter_file,              \* the text of .filtered_components.txt
    FILTERED_COMPONENTS,      \* the OnceLock of git.rs: an Option
    commits,                  \* App.commits
    entries,                  \* App.entries
    items,                    \* App.items
    focus,                    \* App.focus
    offset,                   \* App.offset
    selected,                 \* App.selected
    diff_scroll,              \* App.diff_scroll
    should_quit,              \* App.should_quit
    save_proposed_changelog,  \* App.save_proposed_changelog
    input_mode,               \* App.input_mode
    input_buffer,             \* App.input_buffer
    lookup,                   \* the lookup_prs call under way, when it is looked at alone
    changelog_file,           \* proposed_changelog.md: None, or Some(its text)
    run_result,               \* what run returned: None while it runs
    stderr,                   \* what run printed to the standard error
    write_calls,              \* the calls of write_proposed_changelog so far
    pc,                       \* where run stands
    last                      \* the operation that led to this state

vars ==
    <<history, filter_file, FILTERED_COMPONENTS, commits, entries, items, focus, offset,
      selected, diff_scroll, should_quit, save_proposed_changelog, input_mode,
      input_buffer, lookup, changelog_file, run_result, stderr, write_calls, pc, last>>

out == <<changelog_file, run_result, stderr, write_calls>>

env == <<history, FILTERED_COMPONENTS, lookup>>

\* The lookup variable of a run in which lookup_prs is taken as a whole.
NoLookup == [remote |-> FALSE, responses |-> <<>>, chunk_start |-> 0, success |-> FALSE]

nav == <<offset, selected, diff_scroll>>

list == <<commits, entries, items>>

flags == <<should_quit, save_proposed_changelog>>

\* What `last` records: the operation that led to the state, and the selection,
\* the viewport offset and the diff scroll it started from.
Did(op, sel, off, scroll) ==
    [op |-> op, selected |-> sel, offset |-> off, diff_scroll |-> scroll,
     component |-> <<>>, appended |-> FALSE, reloaded |-> FALSE,
     buffer |-> <<>>, key |-> "", height |-> 0]

\* An operation of the list or the diff pane, with where it started from.
Doing(op) == Did(op, selected, offset, diff_scroll)

\* Any other operation.
Other(op) == Did(op, 0, 0, 0)

\* A key of add-component mode, with the buffer it found and its character.
Typing(op, key) == [Other(op) EXCEPT !.buffer = input_buffer, !.key = key]

\* " ".repeat(n)
repeat_space(n) == [i \in 1..n |-> " "]

\* The Line of one entry, as the texts of its spans.
item_of(entry, cs) ==
    IF IsCommit(entry)
    THEN LET commit == At(cs, entry.commit_idx)
         IN  (IF entry.pr_label # None THEN <<entry.pr_label[1], <<" ">>>>
              ELSE <<repeat_space(entry.indent)>>) \o
             <<<<"short_id", commit.oid>>, <<" ">>, <<"message", commit.oid>>>>
    ELSE <<repeat_space(entry.indent), <<" ", " ">>,
           At(At(cs, entry.commit_idx).file_diffs, entry.file_idx).path>>

build_items(es, cs) == [i \in 1..Len(es) |-> item_of(es[i], cs)]

unwrap_or(option, default) == IF option # None THEN option[1] ELSE default

\* App::selected_file_diff: an Option<FileDiff>.
selected_file_diff ==
    IF selected >= Len(entries) THEN None
    ELSE LET entry == At(entries, selected)
         IN  IF IsPath(entry)
             THEN Some(At(At(commits, entry.commit_idx).file_diffs, entry.file_idx))
             ELSE None

\* The state App::new builds from the commits.
AppNew(cs) ==
    /\ commits = cs
    /\ entries = entries_from_commits(cs)
    /\ items = build_items(entries_from_commits(cs), cs)
    /\ focus = "Left"
    /\ offset = 0
    /\ selected = unwrap_or(first_entry(entries_from_commits(cs)), 0)
    /\ diff_scroll = 0
    /\ should_quit = FALSE
    /\ save_proposed_changelog = FALSE
    /\ input_mode = "Normal"
    /\ input_buffer = <<>>

\* The components the process starts with: its first collect_commits
\* initializes the OnceLock, from the file when it can be read.
main_components(file) == filtered_components(None, file)

\* The commits the process hands to run: collected, then annotated.
main_commits(h, components, remote, responses) ==
    lookup_prs(collect_commits(h, components), remote, responses).commits

\* run: the App is built from the commits and run_loop is entered.
Init ==
    \E h \in Histories, f \in InitialFiles, readable \in BOOLEAN, remote \in BOOLEAN :
        LET components == main_components(IF readable THEN Some(f) ELSE None)
        IN  \E responses \in Responses(Len(collect_commits(h, components))) :
                /\ history = h
                /\ filter_file = f
                /\ FILTERED_COMPONENTS = Some(components)
                /\ AppNew(main_commits(h, components, remote, responses))
                /\ lookup = NoLookup
                /\ changelog_file = None
                /\ run_result = None
                /\ stderr = <<>>
                /\ write_calls = 0
                /\ pc = "draw"
                /\ last = Did("new", 0, 0, 0)

\* ------------------------------------------------------------ navigation
\* The loop of App::next from position i: the first Path entry at or after i.
RECURSIVE scan_next(_, _)
scan_next(es, i) ==
    IF i < Len(es)
    THEN (IF IsPath(At(es, i)) THEN Some(i) ELSE scan_next(es, i + 1))
    ELSE None

\* A next that wraps around to the first Path entry at the end of the list.
App_next_wrapping(es, sel, scroll) ==
    LET found == scan_next(es, sel + 1)
        first == scan_next(es, 0)
    IN  IF found # None THEN [selected |-> found[1], diff_scroll |-> 0]
        ELSE IF first # None THEN [selected |-> first[1], diff_scroll |-> 0]
        ELSE [selected |-> sel, diff_scroll |-> scroll]

\* A next that passes over a Path entry when another one follows it.
App_next_skipping(es, sel, scroll) ==
    LET found == scan_next(es, sel + 1)
        again == IF found # None THEN scan_next(es, found[1] + 1) ELSE None
    IN  IF again # None THEN [selected |-> again[1], diff_scroll |-> 0]
        ELSE IF found # None THEN [selected |-> found[1], diff_scroll |-> 0]
        ELSE [selected |-> sel, diff_scroll |-> scroll]

\* A next that leaves the diff scroll as it is.
App_next_keeps_scroll(es, sel, scroll) ==
    LET found == scan_next(es, sel + 1)
    IN  [selected |-> IF found # None THEN found[1] ELSE sel, diff_scroll |-> scroll]

\* App::next: the selection and the diff scroll it leaves.
App_next(es, sel, scroll) ==
    LET found == scan_next(es, sel + 1)
    IN  IF found # None THEN [selected |-> found[1], diff_scroll |-> 0]
        ELSE [selected |-> sel, diff_scroll |-> scroll]

\* The loop of App::prev from position i: the last Path entry before i.
RECURSIVE scan_prev(_, _)
scan_prev(es, i) ==
    IF i > 0
    THEN (IF IsPath(At(es, i - 1)) THEN Some(i - 1) ELSE scan_prev(es, i - 1))
    ELSE None

\* A prev that steps to the entry above, whatever its kind.
App_prev_one_up(es, sel, off, scroll) ==
    IF sel > 0 THEN [selected |-> sel - 1, diff_scroll |-> 0, offset |-> off]
    ELSE [selected |-> sel, diff_scroll |-> scroll, offset |-> off]

\* A prev that puts the viewport offset on the entry it selects.
App_prev_offset_at_selection(es, sel, off, scroll) ==
    LET found == scan_prev(es, sel)
    IN  IF found # None
        THEN [selected |-> found[1], diff_scroll |-> 0, offset |-> found[1]]
        ELSE [selected |-> sel, diff_scroll |-> scroll, offset |-> off]

\* A prev that moves the viewport offset to the entry above the one it
\* selects when that entry is no Commit entry.
App_prev_offset_above(es, sel, off, scroll) ==
    LET found == scan_prev(es, sel)
    IN  IF found # None
        THEN [selected |-> found[1],
              diff_scroll |-> 0,
              offset |-> IF found[1] > 0 /\ IsCommit(At(es, found[1] - 1))
                         THEN (IF off < found[1] - 1 THEN off ELSE found[1] - 1)
                         ELSE (IF found[1] > 0 THEN found[1] - 1 ELSE 0)]
        ELSE [selected |-> sel, diff_scroll |-> scroll, offset |-> off]

\* App::prev: the selection, the viewport offset and the diff scroll it leaves.
App_prev(es, sel, off, scroll) ==
    LET found == scan_prev(es, sel)
    IN  IF found # None
        THEN [selected |-> found[1],
              diff_scroll |-> 0,
              offset |-> IF found[1] > 0 /\ IsCommit(At(es, found[1] - 1))
                         THEN (IF off < found[1] - 1 THEN off ELSE found[1] - 1)
                         ELSE off]
        ELSE [selected |-> sel, diff_scroll |-> scroll, offset |-> off]

\* usize::saturating_sub
saturating_sub(a, b) == IF a > b THEN a - b ELSE 0

\* An addition that wraps around at the ceiling.
wrapping_add(a, b) == (a + b) % (MaxScroll + 1)

\* usize::saturating_add, for the diff scroll: MaxScroll stands for usize::MAX.
saturating_add(a, b) == IF a + b > MaxScroll THEN MaxScroll ELSE a + b

\* A loop that never looks at should_quit.
LoopTail_unchecked(quit) ==
    /\ pc' = "draw"
    /\ UNCHANGED out

\* The tail of one turn of run_loop: break when should_quit is set.
LoopTail(quit) ==
    /\ pc' = IF quit THEN "quit" ELSE "draw"
    /\ UNCHANGED out

\* ------------------------------------------------------------- run_loop
\* A render that leaves the diff scroll as it finds it.
Draw_unclamped ==
    /\ pc = "draw"
    /\ \E height \in AreaHeights :
           last' = [Did("draw", 0, 0, diff_scroll) EXCEPT !.height = height]
    /\ pc' = "read"
    /\ UNCHANGED <<env, filter_file, list, focus, nav, flags, input_mode, input_buffer, out>>

\* terminal.draw: draw_diff_pane clamps diff_scroll when a file is selected.
Draw ==
    /\ pc = "draw"
    /\ \E height \in AreaHeights :
           LET file == selected_file_diff
               visible_height == saturating_sub(height, 2)
               max_scroll == saturating_sub(file[1].lines, visible_height)
           IN  /\ diff_scroll' = IF file = None THEN diff_scroll
                                 ELSE IF diff_scroll < max_scroll THEN diff_scroll
                                 ELSE max_scroll
               /\ last' = [Did("draw", 0, 0, diff_scroll) EXCEPT !.height = height]
    /\ pc' = "read"
    /\ UNCHANGED <<env, filter_file, list, focus, offset, selected, flags, input_mode,
                   input_buffer, out>>

\* terminal.draw or event::read fails: run_loop returns the error.
IoError ==
    /\ pc \in {"draw", "read"}
    /\ pc' = "error"
    /\ last' = Other("io_error")
    /\ UNCHANGED <<env, filter_file, list, focus, nav, flags, input_mode, input_buffer, out>>

\* An event that is no key press: nothing is handled.
NoKey ==
    /\ pc = "read"
    /\ LoopTail(should_quit)
    /\ last' = Other("no_key")
    /\ UNCHANGED <<env, filter_file, list, focus, nav, flags, input_mode, input_buffer>>

\* ------------------------------------------------------ handle_normal_key
Normal == pc = "read" /\ input_mode = "Normal"

\* A quit key that asks for the changelog as well.
KeyQuit_saving ==
    /\ Normal
    /\ save_proposed_changelog' = TRUE
    /\ should_quit' = TRUE
    /\ LoopTail(TRUE)
    /\ last' = Other("quit")
    /\ UNCHANGED <<env, filter_file, list, focus, nav, input_mode, input_buffer>>

\* 'q' or Esc
KeyQuit ==
    /\ Normal
    /\ should_quit' = TRUE
    /\ LoopTail(TRUE)
    /\ last' = Other("quit")
    /\ UNCHANGED <<env, filter_file, list, focus, nav, save_proposed_changelog,
                   input_mode, input_buffer>>

\* An 's' that is handled as in normal mode whatever the input mode.
KeySave_any_mode ==
    /\ pc = "read"
    /\ save_proposed_changelog' = TRUE
    /\ should_quit' = TRUE
    /\ LoopTail(TRUE)
    /\ last' = Other("save")
    /\ UNCHANGED <<env, filter_file, list, focus, nav, input_mode, input_buffer>>

\* 's'
KeySave ==
    /\ Normal
    /\ save_proposed_changelog' = TRUE
    /\ should_quit' = TRUE
    /\ LoopTail(TRUE)
    /\ last' = Other("save")
    /\ UNCHANGED <<env, filter_file, list, focus, nav, input_mode, input_buffer>>

\* 'i': the popup opens when the terminal's width is known and wide enough.
KeyAddComponent ==
    /\ Normal
    /\ \E wide \in BOOLEAN : input_mode' = IF wide THEN "AddComponent" ELSE input_mode
    /\ LoopTail(should_quit)
    /\ last' = Other("i")
    /\ UNCHANGED <<env, filter_file, list, focus, nav, flags, input_buffer>>

\* A toggle that always ends in the diff pane.
toggle_focus_to_right(f) == "Right"

\* App::toggle_focus
toggle_focus(f) == IF f = "Left" THEN "Right" ELSE "Left"

\* Tab or BackTab
KeyTab ==
    /\ Normal
    /\ focus' = toggle_focus(focus)
    /\ LoopTail(should_quit)
    /\ last' = Other("toggle_focus")
    /\ UNCHANGED <<env, filter_file, list, nav, flags, input_mode, input_buffer>>

KeyLeft ==
    /\ Normal
    /\ focus' = "Left"
    /\ LoopTail(should_quit)
    /\ last' = Other("left")
    /\ UNCHANGED <<env, filter_file, list, nav, flags, input_mode, input_buffer>>

\* A Right that toggles the focus.
KeyRight_toggling ==
    /\ Normal
    /\ focus' = toggle_focus(focus)
    /\ LoopTail(should_quit)
    /\ last' = Other("right")
    /\ UNCHANGED <<env, filter_file, list, nav, flags, input_mode, input_buffer>>

KeyRight ==
    /\ Normal
    /\ focus' = "Right"
    /\ LoopTail(should_quit)
    /\ last' = Other("right")
    /\ UNCHANGED <<env, filter_file, list, nav, flags, input_mode, input_buffer>>

\* Up: App::prev in the list pane, App::scroll_diff_up in the diff pane.
KeyUp ==
    /\ Normal
    /\ IF focus = "Left"
       THEN LET r == App_prev(entries, selected, offset, diff_scroll)
            IN  /\ selected' = r.selected
                /\ diff_scroll' = r.diff_scroll
                /\ offset' = r.offset
                /\ last' = [Doing("prev") EXCEPT !.key = "Up"]
       ELSE /\ diff_scroll' = saturating_sub(diff_scroll, 1)
            /\ last' = [Doing("scroll_diff_up") EXCEPT !.key = "Up"]
            /\ UNCHANGED <<selected, offset>>
    /\ LoopTail(should_quit)
    /\ UNCHANGED <<env, filter_file, list, focus, flags, input_mode, input_buffer>>

\* Down: App::next in the list pane, App::scroll_diff_down in the diff pane.
KeyDown ==
    /\ Normal
    /\ IF focus = "Left"
       THEN LET r == App_next(entries, selected, diff_scroll)
            IN  /\ selected' = r.selected
                /\ diff_scroll' = r.diff_scroll
                /\ last' = [Doing("next") EXCEPT !.key = "Down"]
       ELSE /\ diff_scroll' = saturating_add(diff_scroll, 1)
            /\ last' = [Doing("scroll_diff_down") EXCEPT !.key = "Down"]
            /\ UNCHANGED selected
    /\ LoopTail(should_quit)
    /\ UNCHANGED <<env, filter_file, list, focus, offset, flags, input_mode, input_buffer>>

\* Any other key in normal mode.
KeyIgnored ==
    /\ Normal
    /\ LoopTail(should_quit)
    /\ last' = Other("ignored")
    /\ UNCHANGED <<env, filter_file, list, focus, nav, flags, input_mode, input_buffer>>

\* ------------------------------------------------------- handle_input_key
AddComponent == pc = "read" /\ input_mode = "AddComponent"

\* An Esc that leaves the popup and keeps what was typed.
InputEsc_keeps_buffer ==
    /\ AddComponent
    /\ input_mode' = "Normal"
    /\ LoopTail(should_quit)
    /\ last' = Typing("input_esc", "")
    /\ UNCHANGED <<env, filter_file, list, focus, nav, flags, input_buffer>>

\* Esc
InputEsc ==
    /\ AddComponent
    /\ input_mode' = "Normal"
    /\ input_buffer' = <<>>
    /\ LoopTail(should_quit)
    /\ last' = Typing("input_esc", "")
    /\ UNCHANGED <<env, filter_file, list, focus, nav, flags>>

\* String::pop
pop(s) == IF s = <<>> THEN s ELSE SubSeq(s, 1, Len(s) - 1)

\* Backspace
InputBackspace ==
    /\ AddComponent
    /\ input_buffer' = pop(input_buffer)
    /\ LoopTail(should_quit)
    /\ last' = Typing("input_backspace", "")
    /\ UNCHANGED <<env, filter_file, list, focus, nav, flags, input_mode>>

\* A guard that lets the dot through.
accepts_dot(c) == c # "/"

\* The guard of the Char arm: c != '/' && c != '.'
accepts(c) == c # "/" /\ c # "."

\* Char(c): pushed when accepted, else the key falls to the `_` arm.
InputChar ==
    /\ AddComponent
    /\ \E c \in KeyChars :
           /\ accepts(c) => /\ Len(input_buffer) <= MaxBuf
                             /\ Len(trim(Append(input_buffer, c))) <= MaxBuf
           /\ input_buffer' = IF accepts(c) THEN Append(input_buffer, c) ELSE input_buffer
           /\ last' = Typing("input_char", c)
    /\ LoopTail(should_quit)
    /\ UNCHANGED <<env, filter_file, list, focus, nav, flags, input_mode>>

\* Any other key in add-component mode.
InputIgnored ==
    /\ AddComponent
    /\ LoopTail(should_quit)
    /\ last' = Other("input_ignored")
    /\ UNCHANGED <<env, filter_file, list, focus, nav, flags, input_mode, input_buffer>>

\* A write without the line terminator.
append_line_unterminated(contents, component) == contents \o component

\* writeln!(file, "{component}") on a file opened for appending.
append_line(contents, component) == contents \o component \o <<"\n">>

\* The number of line terminators of a text.
Newlines(contents) == Cardinality({i \in DOMAIN contents : contents[i] = "\n"})

\* A reload that carries the selection and the diff scroll over.
reload_state_keeps_position(cs) ==
    [commits |-> cs,
     entries |-> entries_from_commits(cs),
     items |-> build_items(entries_from_commits(cs), cs),
     selected |-> selected,
     offset |-> 0,
     diff_scroll |-> diff_scroll]

\* A reload that takes the new commits and keeps the entries and the items.
reload_state_keeps_entries(cs) ==
    [commits |-> cs,
     entries |-> entries,
     items |-> items,
     selected |-> unwrap_or(first_entry(entries), 0),
     offset |-> 0,
     diff_scroll |-> 0]

\* What App::reload assigns once the commits are collected and annotated.
reload_state(cs) ==
    [commits |-> cs,
     entries |-> entries_from_commits(cs),
     items |-> build_items(entries_from_commits(cs), cs),
     selected |-> unwrap_or(first_entry(entries_from_commits(cs)), 0),
     offset |-> 0,
     diff_scroll |-> 0]

\* The components collect_commits filters with on a reload: filtered_components
\* is called again, on the OnceLock as it stands.
reload_components(lock, contents) == filtered_components(lock, Some(contents))

\* A reload that resets the navigation before it tries the repository.
Reload_resetting_first(ok, contents) ==
    IF ok
    THEN LET components == reload_components(FILTERED_COMPONENTS, contents)
             collected == collect_commits(history, components)
         IN  \E remote \in BOOLEAN, responses \in Responses(Len(collected)) :
                 LET r == reload_state(lookup_prs(collected, remote, responses).commits)
                 IN  /\ FILTERED_COMPONENTS' = Some(components)
                     /\ commits' = r.commits
                     /\ entries' = r.entries
                     /\ items' = r.items
                     /\ selected' = r.selected
                     /\ offset' = r.offset
                     /\ diff_scroll' = r.diff_scroll
    ELSE /\ selected' = unwrap_or(first_entry(entries), 0)
         /\ offset' = 0
         /\ diff_scroll' = 0
         /\ UNCHANGED <<FILTERED_COMPONENTS, list>>

\* App::reload, on the file as it stands.  ok is whether the repository opens
\* and collect_commits succeeds; when it does not, reload returns at once.
Reload(ok, contents) ==
    IF ok
    THEN LET components == reload_components(FILTERED_COMPONENTS, contents)
             collected == collect_commits(history, components)
         IN  \E remote \in BOOLEAN, responses \in Responses(Len(collected)) :
                 LET r == reload_state(lookup_prs(collected, remote, responses).commits)
                 IN  /\ FILTERED_COMPONENTS' = Some(components)
                     /\ commits' = r.commits
                     /\ entries' = r.entries
                     /\ items' = r.items
                     /\ selected' = r.selected
                     /\ offset' = r.offset
                     /\ diff_scroll' = r.diff_scroll
    ELSE UNCHANGED <<FILTERED_COMPONENTS, list, nav>>

\* Enter: App::submit_component.
InputEnter ==
    /\ AddComponent
    /\ LET component == trim(input_buffer)
       IN  IF component = <<>>
           THEN /\ last' = [Doing("submit_empty") EXCEPT !.buffer = input_buffer]
                /\ UNCHANGED <<FILTERED_COMPONENTS, filter_file, list, nav>>
           ELSE /\ Newlines(filter_file) < MaxAppends
                /\ \E written \in BOOLEAN, ok \in BOOLEAN :
                       /\ filter_file' = IF written THEN append_line(filter_file, component)
                                         ELSE filter_file
                       /\ Reload(ok, filter_file')
                       /\ last' = [Doing("submit") EXCEPT !.buffer = input_buffer,
                                                          !.component = component,
                                                          !.appended = written,
                                                          !.reloaded = ok]
    /\ input_mode' = "Normal"
    /\ input_buffer' = <<>>
    /\ LoopTail(should_quit)
    /\ UNCHANGED <<history, lookup, focus, flags>>

\* ------------------------------------------------- run, after run_loop
\* Result<()>
Ok == <<"Ok">>

Err(error) == <<"Err", error>>

\* A write_proposed_changelog that writes over the file it finds.
write_proposed_changelog_overwriting(file, remote, es, cs, outcome) ==
    IF remote = None
    THEN [file |-> file, result |-> Err("could not determine GitHub repository URL")]
    ELSE [file |-> Some(format_proposed_changelog(es, cs, remote[1][1], remote[1][2], Len(es))),
          result |-> Ok]

\* write_proposed_changelog: the file it leaves and the Result it returns.
\* file is proposed_changelog.md as found, remote what repo_owner_and_name
\* returns, outcome how fs::write ends.
write_proposed_changelog(file, remote, es, cs, outcome) ==
    IF file # None
    THEN [file |-> file,
          result |-> Err("proposed_changelog.md already exists; not overwriting")]
    ELSE IF remote = None
    THEN [file |-> file, result |-> Err("could not determine GitHub repository URL")]
    ELSE IF outcome = "written"
    THEN [file |-> Some(format_proposed_changelog(es, cs, remote[1][1], remote[1][2], Len(es))),
          result |-> Ok]
    ELSE [file |-> IF outcome = "truncated" THEN Some(<<>>) ELSE None,
          result |-> Err("io")]

\* What run prints for the Result of write_proposed_changelog.
report(result) ==
    IF result = Ok THEN <<"Changelog written to proposed_changelog.md">>
    ELSE <<"Error writing changelog: ", result[2]>>

\* path.exists() of write_proposed_changelog finds a file: nothing but that
\* call looks at proposed_changelog.md, so whether the directory holds one is
\* settled when the call is about to be made.
ChangelogExists ==
    /\ pc = "quit"
    /\ save_proposed_changelog
    /\ changelog_file = None
    /\ changelog_file' = Some(OldChangelog)
    /\ UNCHANGED <<env, filter_file, list, focus, nav, flags, input_mode, input_buffer,
                   run_result, stderr, write_calls, pc, last>>

\* run_loop returned an error, or the terminal cannot be restored: the `?`
\* returns the error to the caller of run.
RunFailed ==
    /\ pc \in {"quit", "error"}
    /\ run_result' = Err("io")
    /\ pc' = "done"
    /\ last' = Other("run_failed")
    /\ UNCHANGED <<env, filter_file, list, focus, nav, flags, input_mode, input_buffer,
                   changelog_file, stderr, write_calls>>

\* run_loop broke on should_quit and save_proposed_changelog is not set.
RunQuit ==
    /\ pc = "quit"
    /\ ~save_proposed_changelog
    /\ run_result' = Ok
    /\ pc' = "done"
    /\ last' = Other("run_quit")
    /\ UNCHANGED <<env, filter_file, list, focus, nav, flags, input_mode, input_buffer,
                   changelog_file, stderr, write_calls>>

\* run_loop broke on should_quit and save_proposed_changelog is set: the
\* changelog is written and the Result is printed.
RunSave ==
    /\ pc = "quit"
    /\ save_proposed_changelog
    /\ \E remote \in Remotes, outcome \in WriteOutcomes :
           LET w == write_proposed_changelog(changelog_file, remote, entries, commits, outcome)
           IN  /\ changelog_file' = w.file
               /\ stderr' = Append(stderr, report(w.result))
    /\ write_calls' = write_calls + 1
    /\ run_result' = Ok
    /\ pc' = "done"
    /\ last' = Other("run_save")
    /\ UNCHANGED <<env, filter_file, list, focus, nav, flags, input_mode, input_buffer>>

Next ==
    \/ Draw
    \/ IoError
    \/ NoKey
    \/ KeyQuit
    \/ KeySave
    \/ KeyAddComponent
    \/ KeyTab
    \/ KeyLeft
    \/ KeyRight
    \/ KeyUp
    \/ KeyDown
    \/ KeyIgnored
    \/ InputEsc
    \/ InputBackspace
    \/ InputChar
    \/ InputIgnored
    \/ InputEnter
    \/ ChangelogExists
    \/ RunFailed
    \/ RunQuit
    \/ RunSave

Spec == Init /\ [][Next]_vars

\* ------------------------------------------------------ lookup_prs alone
\* The commit sequences handed to lookup_prs: what collect_commits makes of
\* the first commits of the pool, with the built-in components.
LookupCommits ==
    {collect_commits(SubSeq(CommitPool, 1, n), DEFAULT_COMPONENTS) : n \in 0..Len(CommitPool)}

\* What the gh calls of one lookup of n commits can answer, any PR number
\* under any alias.
AllResponses(n) ==
    {rs \in [1..NumChunks(n) -> {None} \cup {Some(r) : r \in SeqsUpTo(PROptions, BATCH_SIZE)}] :
        \A k \in DOMAIN rs : rs[k] # None => Len(rs[k][1]) = ChunkLen(n, k)}

InitLookup ==
    /\ commits \in LookupCommits
    /\ \E remote \in BOOLEAN, responses \in AllResponses(Len(commits)) :
           lookup = [remote |-> remote, responses |-> responses, chunk_start |-> 0,
                     success |-> FALSE]
    /\ pc = "lookup"
    /\ last = Other("collect_commits")
    /\ entries = <<>>
    /\ items = <<>>
    /\ history = <<>>
    /\ filter_file = <<>>
    /\ FILTERED_COMPONENTS = Some(DEFAULT_COMPONENTS)
    /\ focus = "Left"
    /\ offset = 0
    /\ selected = 0
    /\ diff_scroll = 0
    /\ should_quit = FALSE
    /\ save_proposed_changelog = FALSE
    /\ input_mode = "Normal"
    /\ input_buffer = <<>>
    /\ changelog_file = None
    /\ run_result = None
    /\ stderr = <<>>
    /\ write_calls = 0

\* One turn of the loop of lookup_prs: lookup_prs_batch on the chunk that
\* starts at chunk_start, and the step_by to the next chunk.
LookupBatch ==
    /\ pc = "lookup"
    /\ lookup.remote
    /\ lookup.chunk_start < Len(commits)
    /\ LET chunk_start == lookup.chunk_start
           chunk_end == Min({chunk_start + BATCH_SIZE, Len(commits)})
           batch == lookup_prs_batch(SubSeq(commits, chunk_start + 1, chunk_end),
                                     lookup.responses[(chunk_start \div BATCH_SIZE) + 1])
       IN  /\ commits' = [i \in 1..Len(commits) |->
                            IF chunk_start < i /\ i <= chunk_end
                            THEN batch.commits[i - chunk_start]
                            ELSE commits[i]]
           /\ lookup' = [lookup EXCEPT !.chunk_start = chunk_start + BATCH_SIZE,
                                       !.success = lookup.success \/ batch.ok]
    /\ last' = Other("lookup_prs_batch")
    /\ UNCHANGED <<history, FILTERED_COMPONENTS, filter_file, entries, items, focus, nav,
                   flags, input_mode, input_buffer, out, pc>>

\* lookup_prs returns: at once when repo_owner_and_name finds nothing, else
\* when the chunks are exhausted.
LookupReturn ==
    /\ pc = "lookup"
    /\ ~lookup.remote \/ lookup.chunk_start >= Len(commits)
    /\ pc' = "returned"
    /\ last' = Other("lookup_prs")
    /\ UNCHANGED <<env, filter_file, list, focus, nav, flags, input_mode, input_buffer, out>>

NextLookup ==
    \/ LookupBatch
    \/ LookupReturn

SpecLookup == InitLookup /\ [][NextLookup]_vars

\* ------------------------------------------- the entry list builder alone
\* A file diff of a commit handed to the builder.
InputFile(k) == FileDiff(<<<<"f">>, <<DigitChars[k + 1]>>>>, 0)

\* The commit sequences handed to the builder: any PR association and any
\* number of file diffs per commit, the oid being the position.
InputCommits ==
    {[i \in 1..Len(shape) |->
        CommitInfo(i, shape[i][1], [k \in 1..shape[i][2] |-> InputFile(k)])] :
     shape \in SeqsUpTo(PROptions \X (0..MaxFiles), MaxCommits)}

InitEntries ==
    /\ commits \in InputCommits
    /\ entries = <<>>
    /\ items = <<>>
    /\ pc = "input"
    /\ last = Other("input")
    /\ history = <<>>
    /\ filter_file = <<>>
    /\ FILTERED_COMPONENTS = None
    /\ focus = "Left"
    /\ offset = 0
    /\ selected = 0
    /\ diff_scroll = 0
    /\ should_quit = FALSE
    /\ save_proposed_changelog = FALSE
    /\ input_mode = "Normal"
    /\ input_buffer = <<>>
    /\ lookup = NoLookup
    /\ changelog_file = None
    /\ run_result = None
    /\ stderr = <<>>
    /\ write_calls = 0

\* entries_from_commits of entries.rs (and of the tui crate's lib.rs).
BuildEntries ==
    /\ pc = "input"
    /\ entries' = entries_from_commits(commits)
    /\ items' = build_items(entries', commits)
    /\ pc' = "built"
    /\ last' = Other("entries_from_commits")
    /\ UNCHANGED <<env, filter_file, commits, focus, nav, flags, input_mode, input_buffer, out>>

\* entries_from_commits of src/tui/mod.rs.
BuildEntriesMod ==
    /\ pc = "input"
    /\ entries' = entries_from_commits_mod(commits)
    /\ items' = build_items(entries', commits)
    /\ pc' = "built"
    /\ last' = Other("entries_from_commits_mod")
    /\ UNCHANGED <<env, filter_file, commits, focus, nav, flags, input_mode, input_buffer, out>>

\* format_proposed_changelog on the list as built, as its test calls it.
FormatChangelog ==
    /\ pc = "built"
    /\ \E remote \in Remotes \ {None} :
           changelog_file' = Some(format_proposed_changelog(entries, commits, remote[1][1],
                                                            remote[1][2], Len(entries)))
    /\ pc' = "formatted"
    /\ last' = Other("format_proposed_changelog")
    /\ UNCHANGED <<env, filter_file, list, focus, nav, flags, input_mode, input_buffer,
                   run_result, stderr, write_calls>>

NextEntries ==
    \/ BuildEntries
    \/ BuildEntriesMod
    \/ FormatChangelog

SpecEntries == InitEntries /\ [][NextEntries]_vars

\* ======================================================================
\* Properties of the entry list builder (checked under SpecEntries)
\* ======================================================================
Built == pc = "built"

\* The commit_idx of the Commit entries, in list order.
CommitOrder(es) ==
    [k \in 1..Len(SelectSeq(es, IsCommit)) |-> SelectSeq(es, IsCommit)[k].commit_idx]

\* The label a PR association is to be shown as.
ExpectedLabel(pr) ==
    CASE pr = None -> <<"?", "?">>
      [] pr = Some(1) -> <<"#", "1">>
      [] pr = Some(1234) -> <<"#", "1", "2", "3", "4">>

LabelOfCommit(c) == ExpectedLabel(At(commits, c).pr)

\* The first commit of the input with label l.
FirstOccurrence(l) == Min({c \in 0..(Len(commits) - 1) : LabelOfCommit(c) = l})

PrsOf(cs) == [i \in 1..Len(cs) |-> cs[i].pr]

KindsOf(es) == [i \in 1..Len(es) |-> es[i].kind]

RECURSIVE SumFiles(_, _)
SumFiles(cs, n) == IF n = 0 THEN 0 ELSE SumFiles(cs, n - 1) + Len(cs[n].file_diffs)

\* C4: the Commit entries list every commit once, grouped stably: commits of
\* one label are contiguous and in increasing original index, and the groups
\* stand in the order in which their labels first occur in the input.
C4_GroupingStable ==
    Built =>
        LET order == CommitOrder(entries)
        IN  /\ Len(order) = Len(commits)
            /\ {order[k] : k \in DOMAIN order} = 0..(Len(commits) - 1)
            /\ \A i, j \in DOMAIN order :
                   i < j =>
                       LET li == LabelOfCommit(order[i])
                           lj == LabelOfCommit(order[j])
                       IN  /\ li = lj =>
                                  /\ order[i] < order[j]
                                  /\ \A k \in i..j : LabelOfCommit(order[k]) = li
                           /\ li # lj => FirstOccurrence(li) < FirstOccurrence(lj)

\* The test's case: PRs [a, b, a] are listed in commit order [0, 2, 1].
C4_Witness ==
    /\ Built
    /\ PrsOf(commits) = <<Some(1), Some(1234), Some(1)>>
    /\ CommitOrder(entries) = <<0, 2, 1>>

\* The indent the entries of the current commits are to carry.
ExpectedIndent ==
    IF commits = <<>> THEN 0
    ELSE Max({Len(LabelOfCommit(c)) + 1 : c \in 0..(Len(commits) - 1)})

\* C5: every entry, of every group, carries one indent: the largest label
\* length plus one.
C5_IndentGlobal ==
    Built => \A i \in DOMAIN entries : entries[i].indent = ExpectedIndent

\* C6: the list has one entry per commit and one per file diff, and every
\* entry's commit_idx and file_idx are positions that exist.
C6_LengthAndRange ==
    Built =>
        /\ Len(entries) = Len(commits) + SumFiles(commits, Len(commits))
        /\ \A i \in DOMAIN entries :
               /\ entries[i].commit_idx \in 0..(Len(commits) - 1)
               /\ IsPath(entries[i]) =>
                      entries[i].file_idx \in
                          0..(Len(At(commits, entries[i].commit_idx).file_diffs) - 1)

\* Three commits, one of them without file diffs, and six entries.
C6_Witness ==
    /\ Built
    /\ Len(commits) = 3
    /\ Len(entries) = 6
    /\ \E i \in DOMAIN commits : commits[i].file_diffs = <<>>
    /\ \E i \in DOMAIN commits : Len(commits[i].file_diffs) = 2

\* C7: a Commit entry is followed at once by the Path entries of its file
\* diffs, file_idx 0, 1, ..., and then by the next Commit entry or the end; a
\* list that is not empty starts with a Commit entry, and a Path entry has the
\* commit_idx of the nearest Commit entry before it.
C7_Interleaved ==
    Built =>
        /\ entries # <<>> => IsCommit(entries[1])
        /\ \A i \in DOMAIN entries :
               IsCommit(entries[i]) =>
                   LET n == Len(At(commits, entries[i].commit_idx).file_diffs)
                   IN  /\ i + n <= Len(entries)
                       /\ \A k \in 1..n :
                              /\ IsPath(entries[i + k])
                              /\ entries[i + k].file_idx = k - 1
                              /\ entries[i + k].commit_idx = entries[i].commit_idx
                       /\ i + n < Len(entries) => IsCommit(entries[i + n + 1])
        /\ \A i \in DOMAIN entries :
               IsPath(entries[i]) =>
                   LET heads == {h \in 1..i : IsCommit(entries[h])}
                   IN  /\ heads # {}
                       /\ entries[Max(heads)].commit_idx = entries[i].commit_idx

\* A commit with two files, then one with none, then one with one.
C7_Witness ==
    /\ Built
    /\ KindsOf(entries) = <<"Commit", "Path", "Path", "Commit", "Commit", "Path">>

\* C8: the first Commit entry of a group carries the group's label, "#<number>"
\* or "??", and every later Commit entry of the group carries none.
C8_LabelOnFirst ==
    Built =>
        LET heads == SelectSeq(entries, IsCommit)
        IN  \A k \in DOMAIN heads :
                LET l == LabelOfCommit(heads[k].commit_idx)
                IN  heads[k].pr_label =
                        IF \E j \in 1..(k - 1) : LabelOfCommit(heads[j].commit_idx) = l
                        THEN None ELSE Some(l)

\* Two commits without PR around one of PR 1234: "??", none, "#1234".
C8_Witness ==
    /\ Built
    /\ PrsOf(commits) = <<None, Some(1234), None>>
    /\ [k \in 1..Len(SelectSeq(entries, IsCommit)) |-> SelectSeq(entries, IsCommit)[k].pr_label]
           = <<Some(<<"?", "?">>), None, Some(<<"#", "1", "2", "3", "4">>)>>

\* ======================================================================
\* Properties of the session (checked under Spec)
\* ======================================================================
\* The positions of the Path entries of the current list.
PathPositions == {i \in 0..(Len(entries) - 1) : IsPath(At(entries, i))}

PathsAfter(i) == {j \in PathPositions : j > i}

PathsBefore(i) == {j \in PathPositions : j < i}

\* The selection a freshly built list starts with.
InitialSelection == IF PathPositions = {} THEN 0 ELSE Min(PathPositions)

\* The path of the file a Path entry refers to.
PathOf(entry) == At(At(commits, entry.commit_idx).file_diffs, entry.file_idx).path

\* C1: when the list has a Path entry, the selection is the position of a
\* Path entry (never of a Commit entry), in every state of a session.
C1_SelectionOnPath ==
    PathPositions # {} => selected \in PathPositions

\* A prev has just moved the selection up over a Commit entry.
C1_Witness ==
    /\ last.op = "prev"
    /\ last.selected = selected + 2
    /\ IsCommit(At(entries, selected + 1))
    /\ selected \in PathPositions

\* C2: next and prev are no-ops at the boundaries: next on the last Path
\* entry and prev on the first leave the selection, on an empty list both
\* leave the whole state, and a selection they change is the position of a
\* Path entry of the list.
C2_BoundaryNoOp ==
    [][last'.op \in {"next", "prev"} =>
          /\ entries = <<>> =>
                 UNCHANGED <<history, filter_file, FILTERED_COMPONENTS, commits, entries,
                             items, focus, offset, selected, diff_scroll, should_quit,
                             save_proposed_changelog, input_mode, input_buffer>>
          /\ (last'.op = "next" /\ selected \in PathPositions /\ PathsAfter(selected) = {})
                 => selected' = selected
          /\ (last'.op = "prev" /\ selected \in PathPositions /\ PathsBefore(selected) = {})
                 => selected' = selected
          /\ selected' # selected =>
                 /\ selected' < Len(entries')
                 /\ IsPath(At(entries', selected'))
      ]_vars

\* A next on the last Path entry of a list of two commits has left it there.
C2_Witness ==
    /\ last.op = "next"
    /\ Len(commits) = 2
    /\ selected \in PathPositions
    /\ PathsAfter(selected) = {}
    /\ last.selected = selected

\* C3: next moves to the nearest Path entry below the selection and prev to
\* the nearest above, when there is one, and the diff scroll is then 0.
C3_NearestPath ==
    /\ (last.op = "next" /\ PathsAfter(last.selected) # {}) =>
           /\ selected = Min(PathsAfter(last.selected))
           /\ diff_scroll = 0
    /\ (last.op = "prev" /\ PathsBefore(last.selected) # {}) =>
           /\ selected = Max(PathsBefore(last.selected))
           /\ diff_scroll = 0

\* A next from a scrolled diff has skipped a Commit entry.
C3_Witness ==
    /\ last.op = "next"
    /\ last.diff_scroll > 0
    /\ selected > last.selected + 1
    /\ diff_scroll = 0

\* C9: after a component is appended to the file and the reload has collected
\* the commits, no Path entry refers to a file with that component in its path.
C9_ReloadFiltersNewComponent ==
    (last.op = "submit" /\ last.appended /\ last.reloaded) =>
        \A i \in DOMAIN entries :
            IsPath(entries[i]) =>
                \A k \in DOMAIN PathOf(entries[i]) : PathOf(entries[i])[k] # last.component

\* C10, as claimed: every reload ends on the initial selection of the list,
\* with the viewport offset and the diff scroll 0.
C10_ReloadResets ==
    last.op = "submit" =>
        /\ selected = InitialSelection
        /\ offset = 0
        /\ diff_scroll = 0

\* C10, amended: a reload that opens the repository and collects the commits
\* ends on the initial selection of the rebuilt list, with the viewport offset
\* and the diff scroll 0.
C10_ReloadResetsWhenCollected ==
    (last.op = "submit" /\ last.reloaded) =>
        /\ selected = InitialSelection
        /\ offset = 0
        /\ diff_scroll = 0

\* Such a reload has started from a later selection and a scrolled diff.
C10_Witness ==
    /\ last.op = "submit"
    /\ last.reloaded
    /\ last.selected > selected
    /\ last.diff_scroll > 0
    /\ selected = InitialSelection
    /\ diff_scroll = 0

\* C11: when the App is built and whenever the list is rebuilt, first_entry is
\* None exactly when the list has no Path entry and else the position of its
\* first Path entry, and the selection is that position, or 0 when there is none.
C11_SelectionOnBuild ==
    (last.op = "new" \/ (last.op = "submit" /\ last.reloaded)) =>
        LET found == first_entry(entries)
        IN  /\ found = None <=> \A i \in DOMAIN entries : ~IsPath(entries[i])
            /\ found # None =>
                   /\ IsPath(At(entries, found[1]))
                   /\ \A j \in 0..(found[1] - 1) : ~IsPath(At(entries, j))
                   /\ selected = found[1]
            /\ found = None => selected = 0

\* The App has been built on a list of two commits: the first Path entry
\* stands after the first Commit entry.
C11_Witness ==
    /\ last.op = "new"
    /\ Len(commits) = 2
    /\ first_entry(entries) = Some(1)
    /\ selected = 1

\* ----------------------------------------------------------------------
\* The changelog serializer (checked under SpecEntries)
\* The owner and the name of the remote the serializer is given.
RemoteOf == (CHOOSE r \in Remotes : r # None)[1]

\* The positions of the line terminators of a text, and its k-th line
\* without the terminator.
Terminators(text) == {i \in DOMAIN text : text[i] = "\n"}

LineStart(text, k) ==
    IF k = 1 THEN 1
    ELSE 1 + Max({i \in Terminators(text) :
                    Cardinality({j \in Terminators(text) : j <= i}) = k - 1})

LineEnd(text, k) ==
    Min({i \in Terminators(text) : Cardinality({j \in Terminators(text) : j <= i}) = k})

LineOf(text, k) == SubSeq(text, LineStart(text, k), LineEnd(text, k) - 1)

\* The bullet of a commit: - <message> [<short-id>](<url of the full id>)
ExpectedBullet(commit) ==
    <<"-", " ">> \o message(commit) \o <<" ", "[">> \o short_id(commit)
        \o <<"]", "(", "h", "t", "t", "p", "s", ":", "/", "/",
              "g", "i", "t", "h", "u", "b", ".", "c", "o", "m", "/">>
        \o RemoteOf[1] \o <<"/">> \o RemoteOf[2]
        \o <<"/", "c", "o", "m", "m", "i", "t", "/">> \o oid_string(commit.oid) \o <<")">>

\* C12: the changelog is one terminated line per Commit entry and nothing
\* else, and its k-th line is the bullet of the commit of the k-th Commit
\* entry of the list.
C12_ChangelogLines ==
    last.op = "format_proposed_changelog" =>
        LET text == changelog_file[1]
            order == CommitOrder(entries)
        IN  /\ Cardinality(Terminators(text)) = Len(order)
            /\ text # <<>> => text[Len(text)] = "\n"
            /\ \A k \in DOMAIN order :
                   LineOf(text, k) = ExpectedBullet(At(commits, order[k]))

\* The changelog of a list that the grouping has put out of commit order,
\* with Path entries between its Commit entries.
C12_Witness ==
    /\ last.op = "format_proposed_changelog"
    /\ CommitOrder(entries) = <<0, 2, 1>>
    /\ Len(entries) > 3
    /\ Cardinality(Terminators(changelog_file[1])) = 3

\* ----------------------------------------------------------------------
\* The end of the session and the add-component popup (checked under Spec)
\* What run prints when write_proposed_changelog finds the file.
RefusedReport ==
    <<"Error writing changelog: ", "proposed_changelog.md already exists; not overwriting">>

\* C13: a save that finds proposed_changelog.md leaves its text as it is and
\* reports the refusal, and a save changes the file only when there was none.
C13_NeverOverwrites ==
    [][last'.op = "run_save" =>
          /\ changelog_file # None =>
                 /\ changelog_file' = changelog_file
                 /\ stderr' = Append(stderr, RefusedReport)
          /\ changelog_file' # changelog_file => changelog_file = None
      ]_vars

\* A save has found the file of an earlier run and has left it.
C13_Witness ==
    /\ last.op = "run_save"
    /\ entries # <<>>
    /\ changelog_file = Some(OldChangelog)
    /\ stderr = <<RefusedReport>>

\* The last report of run says that the changelog could not be written.
WriteFailed ==
    /\ last.op = "run_save"
    /\ stderr # <<>>
    /\ stderr[Len(stderr)][1] = "Error writing changelog: "

\* C14: when the changelog could not be written, run returns an error to its
\* caller.
C14_WriteFailureIsError ==
    WriteFailed => (run_result # Ok /\ run_result[1] = "Err")

\* C15: write_proposed_changelog is called at most once, after run_loop has
\* ended and only when 's' ended it, never after 'q' or Esc; and the save
\* flag is never set without the quit flag.
C15_SerializerOnceAfterSave ==
    /\ [](save_proposed_changelog => should_quit)
    /\ [][/\ write_calls' <= 1
          /\ write_calls' # write_calls =>
                 /\ pc = "quit"
                 /\ last.op = "save"
                 /\ write_calls = 0
          /\ (pc = "quit" /\ last.op = "quit") => write_calls' = 0
        ]_vars

\* The serializer has run once, after an 's'.
C15_Witness ==
    /\ last.op = "run_save"
    /\ pc = "done"
    /\ write_calls = 1
    /\ save_proposed_changelog
    /\ should_quit
    /\ changelog_file # None

\* The text between the first and the last character of a buffer that are
\* no whitespace.
Solid(buffer) == {i \in DOMAIN buffer : buffer[i] \notin {" ", "\t", "\n", "\r"}}

Trimmed(buffer) ==
    IF Solid(buffer) = {} THEN <<>>
    ELSE SubSeq(buffer, Min(Solid(buffer)), Max(Solid(buffer)))

\* What C16 says of every Enter, whether or not the file can be written.
EnterFrame ==
    /\ last'.op \in {"submit", "submit_empty"} =>
           /\ input_mode' = "Normal"
           /\ input_buffer' = <<>>
    /\ last'.op = "submit" =>
           /\ Trimmed(input_buffer) # <<>>
           /\ last'.component = Trimmed(input_buffer)
           /\ last'.reloaded =>
                  /\ entries' = entries_from_commits(commits')
                  /\ offset' = 0
                  /\ diff_scroll' = 0
    /\ last'.op = "submit_empty" =>
           /\ Trimmed(input_buffer) = <<>>
           /\ UNCHANGED <<filter_file, FILTERED_COMPONENTS, commits, entries, selected,
                          offset, diff_scroll>>

\* C16, as claimed: Enter on a buffer that is not empty after trimming appends
\* the trimmed text and a line terminator to the filter file, reloads, and
\* ends in normal mode with an empty buffer; Enter on a buffer that is empty
\* after trimming changes neither the file nor the list nor the navigation.
C16_EnterAppends ==
    [][/\ EnterFrame
       /\ last'.op = "submit" =>
              filter_file' = filter_file \o Trimmed(input_buffer) \o <<"\n">>
      ]_vars

\* C16, amended: the trimmed text and a line terminator are appended when the
\* file can be opened and written, and else the file is left as it was; the
\* rest as claimed.
C16_EnterAppendsWhenWritable ==
    [][/\ EnterFrame
       /\ (last'.op = "submit" /\ last'.appended) =>
              filter_file' = filter_file \o Trimmed(input_buffer) \o <<"\n">>
       /\ (last'.op = "submit" /\ ~last'.appended) => filter_file' = filter_file
      ]_vars

\* An Enter has appended a component that was typed with a space around it.
C16_Witness ==
    /\ last.op = "submit"
    /\ last.appended
    /\ last.buffer # last.component
    /\ Len(filter_file) > Len(last.component)
    /\ SubSeq(filter_file, Len(filter_file) - Len(last.component), Len(filter_file))
           = last.component \o <<"\n">>
    /\ input_mode = "Normal"
    /\ input_buffer = <<>>

\* C17: Esc in add-component mode empties the buffer and returns to normal
\* mode, and leaves the filter file, the commits, the entries, the selection,
\* the viewport offset, the diff scroll and the two quit flags as they were.
C17_EscapeDiscards ==
    [][last'.op = "input_esc" =>
          /\ input_mode = "AddComponent"
          /\ input_mode' = "Normal"
          /\ input_buffer' = <<>>
          /\ UNCHANGED <<filter_file, FILTERED_COMPONENTS, commits, entries, selected,
                         offset, diff_scroll, should_quit, save_proposed_changelog>>
      ]_vars

\* An Esc has discarded a buffer that held text.
C17_Witness ==
    /\ last.op = "input_esc"
    /\ last.buffer # <<>>
    /\ entries # <<>>
    /\ input_buffer = <<>>
    /\ input_mode = "Normal"

\* C18: the buffer never holds '/' or '.'; a typed character other than these
\* two is appended at the end, these two leave the buffer as it is, and
\* Backspace removes the last character of a buffer that has one.
C18_BufferEdits ==
    /\ [](\A i \in DOMAIN input_buffer : input_buffer[i] \notin {"/", "."})
    /\ [][/\ (last'.op = "input_char" /\ last'.key \notin {"/", "."}) =>
                 input_buffer' = input_buffer \o <<last'.key>>
          /\ (last'.op = "input_char" /\ last'.key \in {"/", "."}) =>
                 input_buffer' = input_buffer
          /\ (last'.op = "input_backspace" /\ input_buffer # <<>>) =>
                 input_buffer' \o <<input_buffer[Len(input_buffer)]>> = input_buffer
          /\ (last'.op = "input_backspace" /\ input_buffer = <<>>) =>
                 input_buffer' = <<>>
        ]_vars

\* A '.' has been typed after another character and has left the buffer.
C18_Witness ==
    /\ last.op = "input_char"
    /\ last.key = "."
    /\ last.buffer # <<>>
    /\ input_buffer = last.buffer

\* ----------------------------------------------------------------------
\* The path filter and the dropped commits (checked under Spec)
\* A component of the path is one of the strings.
Matches(path, strings) ==
    {path[i] : i \in DOMAIN path} \cap {strings[j] : j \in DOMAIN strings} # {}

\* The path collect_diffs takes for a delta: the new file's, else the old file's.
DeltaPath(delta) == IF delta.new_path # None THEN delta.new_path ELSE delta.old_path

\* The commit of the list that was built from a commit of the history has a
\* FileDiff of this path.
Retained(raw, path) ==
    \E c \in DOMAIN commits :
        /\ commits[c].oid = raw.oid
        /\ \E f \in DOMAIN commits[c].file_diffs : commits[c].file_diffs[f].path = path

\* No FileDiff of the commits has a path with a component of the set that
\* collect_commits filters with, and the print-only main lists a path of a
\* delta exactly when none of its components is in its set.
FilterKept ==
    /\ \A c \in DOMAIN commits : \A f \in DOMAIN commits[c].file_diffs :
           ~Matches(commits[c].file_diffs[f].path, FILTERED_COMPONENTS[1])
    /\ \A h \in DOMAIN history : \A d \in DOMAIN history[h].deltas :
           LET listed == get_unfiltered_paths(history[h].deltas)
               path == DeltaPath(history[h].deltas[d])
           IN  path # None =>
                   ((listed # None /\ path[1] \in listed[1])
                        <=> ~Matches(path[1], MAIN_FILTERED_COMPONENTS))

\* C19, as claimed: the file of a delta is left out of its commit's file
\* diffs exactly when a component of its path is in the filter set.
C19_ExcludedIffFiltered ==
    /\ FilterKept
    /\ \A h \in DOMAIN history : \A d \in DOMAIN history[h].deltas :
           LET path == DeltaPath(history[h].deltas[d])
           IN  path # None =>
                   (~Retained(history[h], path[1]) <=> Matches(path[1], FILTERED_COMPONENTS[1]))

\* C19, amended: so it is for the deltas that have a patch; a delta without
\* a patch is left out whatever its path.
C19_ExcludedIffFilteredOrNoPatch ==
    /\ FilterKept
    /\ \A h \in DOMAIN history : \A d \in DOMAIN history[h].deltas :
           LET delta == history[h].deltas[d]
               path == DeltaPath(delta)
           IN  path # None =>
                   (~Retained(history[h], path[1])
                        <=> (Matches(path[1], FILTERED_COMPONENTS[1]) \/ delta.patch = None))

\* The first commit of the history has lost tests/x to the filter and has
\* kept src/a, and the second has lost q/c to a component read from the file.
C19_Witness ==
    /\ Len(history) = 2
    /\ ~Retained(history[1], tests_x)
    /\ Retained(history[1], src_a)
    /\ ~Retained(history[2], q_c)
    /\ Matches(q_c, FILTERED_COMPONENTS[1])

\* A commit of the history has a delta that collect_diffs keeps.
HasKept(raw) ==
    \E d \in DOMAIN raw.deltas :
        /\ DeltaPath(raw.deltas[d]) # None
        /\ raw.deltas[d].patch # None
        /\ ~Matches(DeltaPath(raw.deltas[d])[1], FILTERED_COMPONENTS[1])

OidsOf(cs) == [i \in DOMAIN cs |-> cs[i].oid]

\* C20: the commits are those of the history that keep a file diff, in
\* order, each with at least one FileDiff, and every Commit entry of the list
\* has a Path entry right after it.
C20_NoEmptyCommit ==
    /\ \A c \in DOMAIN commits : commits[c].file_diffs # <<>>
    /\ OidsOf(commits) = OidsOf(SelectSeq(history, HasKept))
    /\ \A i \in DOMAIN entries :
           IsCommit(entries[i]) => (i < Len(entries) /\ IsPath(entries[i + 1]))

\* A reload has collected a history of two commits and has dropped the
\* second, whose only file with a patch is filtered.
C20_Witness ==
    /\ last.op = "submit"
    /\ last.reloaded
    /\ Len(history) = 2
    /\ OidsOf(commits) = <<1>>
    /\ Len(entries) > 1

\* ----------------------------------------------------------------------
\* The PR lookup (checked under SpecLookup)
\* The batch (1-based) and the alias number of the commit at position i (1-based).
BatchOf(i) == ((i - 1) \div BATCH_SIZE) + 1

AliasOf(i) == (i - 1) % BATCH_SIZE

\* The commits as collect_commits made them: without a PR.
Unannotated(cs) == [i \in DOMAIN cs |-> [cs[i] EXCEPT !.pr = None]]

Returned == pc = "returned" /\ last.op = "lookup_prs"

\* C21: when lookup_prs has returned, the commits of a failed batch have no
\* PR, the commits of every other batch have what the response holds under
\* their alias, whatever happened to the batches before, and the value
\* returned is true exactly when some batch succeeded.
C21_BatchFailureIsLocal ==
    Returned =>
        /\ \A i \in DOMAIN commits :
               IF lookup.remote /\ lookup.responses[BatchOf(i)] # None
               THEN commits[i].pr = lookup.responses[BatchOf(i)][1][AliasOf(i) + 1]
               ELSE commits[i].pr = None
        /\ lookup.success <=>
               (lookup.remote /\ \E k \in DOMAIN lookup.responses : lookup.responses[k] # None)
        /\ LET whole == lookup_prs(Unannotated(commits), lookup.remote, lookup.responses)
           IN  whole.commits = commits /\ whole.success = lookup.success

\* The first batch has failed and the second has found a PR.
C21_Witness ==
    /\ Returned
    /\ Len(commits) > BATCH_SIZE
    /\ lookup.responses[1] = None
    /\ commits[1].pr = None
    /\ commits[BATCH_SIZE + 1].pr # None
    /\ lookup.success

\* C22: the commits come without a PR; a step changes the PR of a commit only
\* from none to the number under the commit's alias in the response of the
\* batch at hand, which holds the commit and at most BATCH_SIZE commits; the
\* batches start at the multiples of BATCH_SIZE and cover the sequence; and
\* nothing else of a commit changes.
C22_PrSetOnce ==
    /\ []((pc = "lookup" /\ lookup.chunk_start = 0) => \A i \in DOMAIN commits : commits[i].pr = None)
    /\ [](lookup.chunk_start % BATCH_SIZE = 0)
    /\ []((Returned /\ lookup.remote) => lookup.chunk_start >= Len(commits))
    /\ [][/\ DOMAIN commits' = DOMAIN commits
          /\ \A i \in DOMAIN commits :
                 /\ commits[i].pr # None => commits'[i].pr = commits[i].pr
                 /\ commits'[i].pr # commits[i].pr =>
                        /\ last'.op = "lookup_prs_batch"
                        /\ lookup.chunk_start = (BatchOf(i) - 1) * BATCH_SIZE
                        /\ lookup.responses[BatchOf(i)] # None
                        /\ commits'[i].pr = lookup.responses[BatchOf(i)][1][AliasOf(i) + 1]
                 /\ commits'[i].oid = commits[i].oid
                 /\ commits'[i].file_diffs = commits[i].file_diffs
        ]_vars

\* The second batch has set the PR of its first commit and has left the PR
\* that the first batch had set.
C22_Witness ==
    /\ last.op = "lookup_prs_batch"
    /\ lookup.chunk_start = 2 * BATCH_SIZE
    /\ commits[1].pr = Some(1)
    /\ commits[BATCH_SIZE + 1].pr = Some(1234)

\* ----------------------------------------------------------------------
\* The viewport, the panes and the loop (checked under Spec)
\* The position of the Commit entry that heads the commit of the entry at i.
HeaderOf(i) == Max({j \in 0..i : IsCommit(At(entries, j))})

\* C23: when a Path entry is selected, the viewport offset is at most the
\* position of the Commit entry that heads its commit.
C23_HeaderNotAboveViewport ==
    selected \in PathPositions => offset <= HeaderOf(selected)

\* A next has moved the selection into the second commit of the list.
C23_Witness ==
    /\ last.op = "next"
    /\ selected \in PathPositions
    /\ last.selected < selected
    /\ HeaderOf(selected) > 0
    /\ offset <= HeaderOf(selected)

\* C24: Tab flips the focus and leaves the selection, the viewport offset,
\* the diff scroll, the list, the input mode and the quit flags; two flips
\* give the focus back.
C24_ToggleFocusOnly ==
    /\ [](toggle_focus(toggle_focus(focus)) = focus)
    /\ [][last'.op = "toggle_focus" =>
              /\ focus' # focus
              /\ focus' \in {"Left", "Right"}
              /\ UNCHANGED <<selected, offset, diff_scroll, commits, entries, items,
                             input_mode, input_buffer, should_quit, save_proposed_changelog>>
        ]_vars

\* A Tab has brought the focus back to the list pane of a list with entries.
C24_Witness ==
    /\ last.op = "toggle_focus"
    /\ focus = "Left"
    /\ entries # <<>>
    /\ selected \in PathPositions

\* C25: a scroll up takes 1 from the diff scroll unless it is 0, a scroll down
\* adds 1 unless it is at the ceiling, the diff scroll is never negative, and
\* neither moves the selection or the viewport offset.
C25_ScrollSaturates ==
    /\ diff_scroll \in Nat
    /\ last.op = "scroll_diff_up" =>
           /\ diff_scroll = IF last.diff_scroll = 0 THEN 0 ELSE last.diff_scroll - 1
           /\ selected = last.selected
           /\ offset = last.offset
    /\ last.op = "scroll_diff_down" =>
           /\ diff_scroll = IF last.diff_scroll = MaxScroll THEN MaxScroll
                             ELSE last.diff_scroll + 1
           /\ selected = last.selected
           /\ offset = last.offset

\* A scroll down at the ceiling has left the diff scroll there.
C25_Witness ==
    /\ last.op = "scroll_diff_down"
    /\ last.diff_scroll = MaxScroll
    /\ diff_scroll = MaxScroll

C27_QuitIsCooperative ==
    /\ [](should_quit => pc \in {"quit", "done"})
    /\ [][/\ should_quit => should_quit'
          /\ pc = "quit" => pc' \in {"quit", "done"}
          /\ (pc = "read" /\ last'.op \in {"quit", "save"}) =>
                 /\ input_mode = "Normal"
                 /\ should_quit'
                 /\ pc' = "quit"
          /\ (~should_quit /\ should_quit') =>
                 /\ pc = "read"
                 /\ last'.op \in {"quit", "save"}
        ]_vars

\* An 's' has ended the loop of a session with entries.
C27_Witness ==
    /\ last.op = "save"
    /\ entries # <<>>
    /\ should_quit
    /\ pc = "quit"

\* The largest diff scroll a render leaves for the selected file in a diff
\* pane of this height: the lines of the file beyond the visible ones.
ScrollBound(height) ==
    LET line_count == selected_file_diff[1].lines
        visible == IF height > 2 THEN height - 2 ELSE 0
    IN  IF line_count > visible THEN line_count - visible ELSE 0

\* C28: a render with a file selected leaves the smaller of the diff scroll
\* and the bound, a render without one leaves the diff scroll, and when a key
\* is about to be read with a file selected the diff scroll is within the
\* bound of the render before.
C28_RenderClamps ==
    /\ []((pc = "read" /\ selected_file_diff # None) => diff_scroll <= ScrollBound(last.height))
    /\ [][last'.op = "draw" =>
              /\ UNCHANGED <<selected, commits, entries>>
              /\ diff_scroll' = IF selected_file_diff = None THEN diff_scroll
                                 ELSE Min({diff_scroll, ScrollBound(last'.height)})
        ]_vars

\* A render has brought a diff scroll beyond the bound down to it.
C28_Witness ==
    /\ last.op = "draw"
    /\ selected_file_diff # None
    /\ ScrollBound(last.height) > 0
    /\ last.diff_scroll > diff_scroll
    /\ diff_scroll = ScrollBound(last.height)

\* C29: in the list pane Up is prev and Down is next, and they change the
\* diff scroll only to 0; in the diff pane Up and Down leave the selection
\* and the viewport offset; Left ends in the list pane and Right in the diff
\* pane.
C29_KeysByPane ==
    [][/\ last'.key \in {"Up", "Down"} =>
              /\ input_mode = "Normal"
              /\ focus' = focus
       /\ (last'.key = "Up" /\ focus = "Left") =>
              /\ last'.op = "prev"
              /\ selected' = IF PathsBefore(selected) # {} THEN Max(PathsBefore(selected))
                              ELSE selected
              /\ diff_scroll' \in {diff_scroll, 0}
       /\ (last'.key = "Down" /\ focus = "Left") =>
              /\ last'.op = "next"
              /\ selected' = IF PathsAfter(selected) # {} THEN Min(PathsAfter(selected))
                              ELSE selected
              /\ diff_scroll' \in {diff_scroll, 0}
       /\ (last'.key \in {"Up", "Down"} /\ focus = "Right") =>
              /\ last'.op = IF last'.key = "Up" THEN "scroll_diff_up" ELSE "scroll_diff_down"
              /\ selected' = selected
              /\ offset' = offset
       /\ last'.op = "left" => focus' = "Left"
       /\ last'.op = "right" => focus' = "Right"
      ]_vars

\* An Up in the diff pane has scrolled the diff of the selected file back.
C29_Witness ==
    /\ last.op = "scroll_diff_up"
    /\ last.key = "Up"
    /\ focus = "Right"
    /\ selected \in PathPositions
    /\ selected = last.selected
    /\ last.diff_scroll = diff_scroll + 1

\* C30: an Enter whose reload cannot open the repository or collect the
\* commits leaves the commits, the entries, the items, the selection, the
\* viewport offset and the diff scroll, and ends in normal mode with an
\* empty buffer, the component being in the file when the write went through.
C30_FailedReloadChangesNothing ==
    [][(last'.op = "submit" /\ ~last'.reloaded) =>
          /\ UNCHANGED <<commits, entries, items, selected, offset, diff_scroll>>
          /\ input_mode' = "Normal"
          /\ input_buffer' = <<>>
          /\ last'.appended =>
                 filter_file' = filter_file \o last'.component \o <<"\n">>
      ]_vars

\* A reload has failed after the component was appended, with the selection
\* past the first Path entry.
C30_Witness ==
    /\ last.op = "submit"
    /\ ~last.reloaded
    /\ last.appended
    /\ selected = last.selected
    /\ selected > InitialSelection
    /\ Newlines(filter_file) = 1
    /\ input_mode = "Normal"
    /\ input_buffer = <<>>

\* ----------------------------------------------------------------------
\* The popup and the derived state (checked under Spec)
\* The operations of handle_normal_key.
NormalOps ==
    {"quit", "save", "i", "toggle_focus", "left", "right", "prev", "next",
     "scroll_diff_up", "scroll_diff_down", "ignored"}

\* C31: in add-component mode a key leaves the selection, the viewport
\* offset, the diff scroll, the focus and the quit flags unless it is an
\* Enter on a non-empty buffer; no key is handled as in normal mode: an
\* accepted character such as 'q' is pushed to the buffer, Esc goes back to
\* normal mode without quitting, and any other key changes nothing.
C31_PopupKeysStayInPopup ==
    [][(pc = "read" /\ input_mode = "AddComponent") =>
          /\ last'.op \notin NormalOps
          /\ ~(last'.op \in {"submit", "submit_empty"} /\ input_buffer # <<>>) =>
                 UNCHANGED <<selected, offset, diff_scroll, focus,
                             should_quit, save_proposed_changelog>>
          /\ (last'.op = "input_char" /\ accepts(last'.key)) =>
                 /\ input_buffer' = Append(input_buffer, last'.key)
                 /\ input_mode' = "AddComponent"
                 /\ pc' = "draw"
          /\ last'.op = "input_esc" =>
                 /\ input_mode' = "Normal"
                 /\ ~should_quit'
                 /\ pc' = "draw"
          /\ last'.op = "input_ignored" =>
                 UNCHANGED <<input_mode, input_buffer, commits, entries, items>>
      ]_vars

\* A 'q' has been pushed to the buffer of the popup, the selection being past
\* the first Path entry and the loop going on.
C31_Witness ==
    /\ last.op = "input_char"
    /\ last.key = "q"
    /\ input_buffer = Append(last.buffer, "q")
    /\ input_mode = "AddComponent"
    /\ selected > InitialSelection
    /\ ~should_quit
    /\ pc = "draw"

\* The positions of the Commit entries that refer to the commit at c.
HeadersOf(c) ==
    {i \in 0..(Len(entries) - 1) : IsCommit(At(entries, i)) /\ At(entries, i).commit_idx = c}

\* C32: the entries are those entries_from_commits derives from the commits,
\* the items are those build_items derives from both, one for each entry, and
\* each commit is referred to by exactly one Commit entry.
C32_ListDerivedFromCommits ==
    /\ entries = entries_from_commits(commits)
    /\ items = build_items(entries, commits)
    /\ Len(items) = Len(entries)
    /\ \A c \in 0..(Len(commits) - 1) : Cardinality(HeadersOf(c)) = 1

\* A reload has collected two commits or more, one of them with a pull
\* request, and rebuilt the list from them.
C32_Witness ==
    /\ last.op = "submit"
    /\ last.reloaded
    /\ Len(commits) >= 2
    /\ \E c \in 1..Len(commits) : commits[c].pr # None
    /\ Len(entries) > Len(commits)
    /\ entries = entries_from_commits(commits)

\* The selections next goes through from sel, applied until it changes
\* nothing or n times.
RECURSIVE NextWalk(_, _, _)
NextWalk(es, sel, n) ==
    LET after == App_next(es, sel, 0).selected
    IN  IF n = 0 \/ after = sel THEN <<sel>>
        ELSE <<sel>> \o NextWalk(es, after, n - 1)

\* The selections prev goes through from sel, applied until it changes
\* nothing or n times.
RECURSIVE PrevWalk(_, _, _)
PrevWalk(es, sel, n) ==
    LET before == App_prev(es, sel, 0, 0).selected
    IN  IF n = 0 \/ before = sel THEN <<sel>>
        ELSE <<sel>> \o PrevWalk(es, before, n - 1)

\* C33: on a list with Path entries, next applied again and again from the
\* initial selection goes through all the Path entries, each once and in
\* increasing order, and stops on the last one within as many steps as there
\* are entries; prev applied again and again from any Path entry stops on the
\* first one.
C33_WalksReachTheEnds ==
    PathPositions # {} =>
        LET walk == NextWalk(entries, unwrap_or(first_entry(entries), 0), Len(entries))
            end == walk[Len(walk)]
        IN  /\ Len(walk) = Cardinality(PathPositions)
            /\ {walk[k] : k \in 1..Len(walk)} = PathPositions
            /\ \A k \in 1..(Len(walk) - 1) : walk[k] < walk[k + 1]
            /\ end = Max(PathPositions)
            /\ App_next(entries, end, 0).selected = end
            /\ \A s \in PathPositions :
                   LET back == PrevWalk(entries, s, Len(entries))
                       start == back[Len(back)]
                   IN  /\ start = Min(PathPositions)
                       /\ App_prev(entries, start, 0, 0).selected = start
                       /\ \A k \in 1..(Len(back) - 1) : back[k] > back[k + 1]

\* The Down key has taken the selection from the first of three Path entries
\* or more to the last one, where one more Down has left it.
C33_Witness ==
    /\ last.op = "next"
    /\ Cardinality(PathPositions) >= 3
    /\ Len(NextWalk(entries, InitialSelection, Len(entries))) >= 3
    /\ selected = Max(PathPositions)
    /\ last.selected = selected

\* C34: no step raises the viewport offset, and it is 0 in every state.
C34_OffsetStaysZero ==
    /\ [](offset = 0)
    /\ [][offset' <= offset]_vars

\* On a list of two commits or more, a prev has come back to the Path entry
\* that follows the first Commit entry, the step on which prev writes the
\* offset, and the offset is what it was, 0.
C34_Witness ==
    /\ last.op = "prev"
    /\ Len(commits) >= 2
    /\ selected = InitialSelection
    /\ last.selected = Min(PathsAfter(selected))
    /\ HeaderOf(selected) = selected - 1
    /\ last.offset = 0
    /\ offset = 0

\* C35: in normal mode the input buffer is empty, and the buffer changes
\* only on a key read in add-component mode.
C35_NormalModeBufferEmpty ==
    /\ [](input_mode = "Normal" => input_buffer = <<>>)
    /\ [][input_buffer' # input_buffer => (pc = "read" /\ input_mode = "AddComponent")]_vars
    /\ [][(input_mode = "AddComponent" /\ input_mode' = "Normal") =>
              /\ last'.op \in {"input_esc", "submit", "submit_empty"}
              /\ input_buffer' = <<>>
        ]_vars

\* An Enter on a buffer of white space only has closed the popup and left the
\* buffer empty.
C35_Witness ==
    /\ last.op = "submit_empty"
    /\ last.buffer # <<>>
    /\ input_mode = "Normal"
    /\ input_buffer = <<>>

====
